---- MODULE Spec2Model ----
(***************************************************************************)
(* A model of add_playlist_to_mstream.py: the playlist parser, the file   *)
(* locator, the API client and main's control flow.                       *)
(*                                                                         *)
(* Text (file names, playlist lines, URLs) is a sequence of one-character  *)
(* strings, so that strip, lower, suffix and the URL join are computed.    *)
(* A path is a sequence of names; the filesystem maps paths to nodes.      *)
(***************************************************************************)
EXTENDS Integers, Sequences, FiniteSets, TLC

VARIABLES
    pc,             \* position of the run: which step of main (or which call) is next
    exit_code,      \* main's return value, -1 while running
    Settings,       \* the Settings class attributes
    args_path,      \* main: the --path argument
    target,         \* main: args.path resolved; gather_m3u_files: its root argument
    fs,             \* the filesystem: path -> node
    case_sensitive, \* the platform's rule for glob patterns
    m3u_files,      \* the list gather_m3u_files returned
    err,            \* the exception the last call raised, "none" if it returned
    idx,            \* index of the next file of the upload loop
    headers,        \* session.headers["X-CSRF-Token"], None when not set
    http,           \* the requests issued so far, each with the server's reply
    attempts,       \* the files the upload loop has handled so far
    present,        \* parse_m3u: whether file_path is a regular file at read time
    raw_lines,      \* parse_m3u: the lines the file yields
    songs,          \* parse_m3u: the list returned
    env_base,       \* MS_BASE_URL as found in the environment
    endpoint,       \* api_request: the endpoint argument
    reply,          \* api_request: what session.request produced
    url             \* api_request: the URL requested

vars == <<pc, exit_code, Settings, args_path, target, fs, case_sensitive, m3u_files, err, idx,
          headers, http, attempts, present, raw_lines, songs, env_base, endpoint,
          reply, url>>

None == "<None>"

(***************************************************************************)
(* Text                                                                    *)
(***************************************************************************)
\* Characters str.strip() removes when called without an argument.
Whitespace == {" ", "\t", "\n", "\r"}

\* Characters in code-point order, as Python compares them.
CodePoints ==
    <<"\t", "\n", "\r", " ", "#", ".", "/", "1", "3", ":",
      "I", "L", "M", "S", "T", "U",
      "a", "b", "c", "d", "e", "g", "h", "i", "k", "l", "m", "n", "o", "p",
      "s", "t", "u", "v", "x", "y">>

ord(c) == CHOOSE i \in 1..Len(CodePoints) : CodePoints[i] = c

UpperCase == <<"I", "L", "M", "S", "T", "U">>
LowerCase == <<"i", "l", "m", "s", "t", "u">>

lower_char(c) ==
    IF \E i \in 1..Len(UpperCase) : UpperCase[i] = c
    THEN LowerCase[CHOOSE i \in 1..Len(UpperCase) : UpperCase[i] = c]
    ELSE c

lower(s) == [i \in 1..Len(s) |-> lower_char(s[i])]

RECURSIVE lstrip(_, _)
lstrip(s, chars) ==
    IF s # <<>> /\ Head(s) \in chars THEN lstrip(Tail(s), chars) ELSE s

RECURSIVE rstrip(_, _)
rstrip(s, chars) ==
    IF s # <<>> /\ s[Len(s)] \in chars
    THEN rstrip(SubSeq(s, 1, Len(s) - 1), chars)
    ELSE s

\* Fault variant of strip: trailing whitespace is kept.
strip_left_only(s) == lstrip(s, Whitespace)

strip(s) == rstrip(lstrip(s, Whitespace), Whitespace)

startswith(s, prefix) ==
    /\ Len(s) >= Len(prefix)
    /\ SubSeq(s, 1, Len(prefix)) = prefix

endswith(s, suffix) ==
    /\ Len(s) >= Len(suffix)
    /\ SubSeq(s, Len(s) - Len(suffix) + 1, Len(s)) = suffix

(***************************************************************************)
(* parse_m3u                                                               *)
(***************************************************************************)
Returned(v) == [raised |-> "none", value |-> v]
Raised(e) == [raised |-> e, value |-> <<>>]

\* One iteration of "for raw_line in f".
parse_line(acc, raw_line) ==
    LET line == strip(raw_line)
    IN  IF line # <<>> /\ ~startswith(line, <<"#">>) THEN Append(acc, line) ELSE acc

RECURSIVE parse_lines(_, _)
parse_lines(acc, lines) ==
    IF lines = <<>> THEN acc
    ELSE parse_lines(parse_line(acc, Head(lines)), Tail(lines))

parse_m3u(is_file, lines) ==
    IF ~is_file
    THEN Raised("FileNotFoundError")
    ELSE Returned(parse_lines(<<>>, lines))

(***************************************************************************)
(* Paths and the filesystem                                                *)
(***************************************************************************)
DOT_M3U == <<".", "m", "3", "u">>

D_NAME == <<"d">>
SUB_NAME == <<"s", "u", "b">>
A_M3U == <<"a", ".", "m", "3", "u">>
B_M3U == <<"b", ".", "m", "3", "u">>
E_M3U == <<"e", ".", "m", "3", "u">>
X_M3U == <<"x", ".", "m", "3", "u">>
LIST_M3U == <<"L", "I", "S", "T", ".", "M", "3", "U">>
C_TXT == <<"c", ".", "t", "x", "t">>
T_TXT == <<"t", ".", "t", "x", "t">>

\* The paths the model's filesystems are made of: a directory d with the
\* children a.m3u, b.m3u, LIST.M3U, c.txt, e.m3u and sub, and sub's children
\* x.m3u and t.txt.
DirD == <<D_NAME>>
DirSub == <<D_NAME, SUB_NAME>>
PathA == <<D_NAME, A_M3U>>
PathB == <<D_NAME, B_M3U>>
PathList == <<D_NAME, LIST_M3U>>
PathC == <<D_NAME, C_TXT>>
PathE == <<D_NAME, E_M3U>>
PathX == <<D_NAME, SUB_NAME, X_M3U>>
PathT == <<D_NAME, SUB_NAME, T_TXT>>

Absent == [kind |-> "none", to |-> <<>>]
RegularFile == [kind |-> "file", to |-> <<>>]
Directory == [kind |-> "dir", to |-> <<>>]
SymlinkTo(p) == [kind |-> "link", to |-> p]

\* Every filesystem of the model: each entry is absent or of the kinds listed.
\* a.m3u may be a symbolic link to sub/t.txt (dangling when t.txt is absent),
\* e.m3u may be a directory whose name carries the playlist extension.
FileSystems ==
    { (DirD :> Directory) @@ (DirSub :> Directory) @@ (PathA :> na) @@ (PathB :> nb)
        @@ (PathList :> nl) @@ (PathC :> nc) @@ (PathE :> ne) @@ (PathX :> nx)
        @@ (PathT :> nt) :
        na \in {Absent, RegularFile, SymlinkTo(PathT)},
        nb \in {Absent, RegularFile},
        nl \in {Absent, RegularFile},
        nc \in {Absent, RegularFile},
        ne \in {Absent, Directory},
        nx \in {Absent, RegularFile},
        nt \in {Absent, RegularFile} }

\* The filesystems holding the two directories and nothing else.
NoFiles ==
    { f \in FileSystems : \A p \in DOMAIN f : p \notin {DirD, DirSub} => f[p] = Absent }

\* The paths a caller passes: the directory, a playlist, an upper-case playlist,
\* a text file, a subdirectory.  Any of them but d and sub may be absent.
Targets == {DirD, PathA, PathList, PathC, DirSub, PathE}

node(f, p) == IF p \in DOMAIN f THEN f[p] ELSE Absent

\* Path.resolve(): symbolic links are followed; a dangling link resolves to
\* the path it names.
RECURSIVE resolve(_, _)
resolve(f, p) ==
    IF node(f, p).kind = "link" THEN resolve(f, node(f, p).to) ELSE p

\* Path.is_file() and Path.is_dir() follow symbolic links.
is_file(f, p) == node(f, resolve(f, p)).kind = "file"
is_dir(f, p) == node(f, resolve(f, p)).kind = "dir"

path_name(p) == p[Len(p)]

\* PurePath.suffix: from the last dot of the name, unless the name starts or
\* ends with that dot.
last_dot(name) ==
    IF \E i \in 1..Len(name) : name[i] = "."
    THEN CHOOSE i \in 1..Len(name) :
            name[i] = "." /\ \A j \in (i + 1)..Len(name) : name[j] # "."
    ELSE 0

suffix(name) ==
    LET i == last_dot(name)
    IN  IF 1 < i /\ i < Len(name) THEN SubSeq(name, i, Len(name)) ELSE <<>>

\* PurePath.stem: the name without its suffix.
stem(name) ==
    LET i == last_dot(name)
    IN  IF 1 < i /\ i < Len(name) THEN SubSeq(name, 1, i - 1) ELSE name

\* Comparison of str, by code point; of paths, part by part.
RECURSIVE str_lt(_, _)
str_lt(a, b) ==
    IF b = <<>> THEN FALSE
    ELSE IF a = <<>> THEN TRUE
    ELSE IF Head(a) # Head(b) THEN ord(Head(a)) < ord(Head(b))
    ELSE str_lt(Tail(a), Tail(b))

RECURSIVE path_lt(_, _)
path_lt(p, q) ==
    IF q = <<>> THEN FALSE
    ELSE IF p = <<>> THEN TRUE
    ELSE IF Head(p) # Head(q) THEN str_lt(Head(p), Head(q))
    ELSE path_lt(Tail(p), Tail(q))

\* sorted(): the elements of s in ascending order.
RECURSIVE insert_sorted(_, _)
insert_sorted(x, s) ==
    IF s = <<>> THEN <<x>>
    ELSE IF path_lt(x, Head(s)) THEN <<x>> \o s
    ELSE <<Head(s)>> \o insert_sorted(x, Tail(s))

RECURSIVE sorted(_)
sorted(s) ==
    IF s = <<>> THEN <<>> ELSE insert_sorted(Head(s), sorted(Tail(s)))

(***************************************************************************)
(* gather_m3u_files                                                        *)
(***************************************************************************)
\* The immediate children of directory root.
children(f, root) ==
    { p \in DOMAIN f :
        /\ f[p].kind # "none"
        /\ Len(p) = Len(root) + 1
        /\ SubSeq(p, 1, Len(root)) = root }

\* Whether a name matches the pattern "*.m3u": case decides as the platform
\* does (POSIX: case-sensitive; Windows: names are case-folded first).
glob_match(name, cs) ==
    endswith(IF cs THEN name ELSE lower(name), DOT_M3U)

\* root.glob("*.m3u") as a set; the order it yields them in is the caller's
\* choice of a listing.
glob(f, root, cs) == { p \in children(f, root) : glob_match(path_name(p), cs) }

\* Every order in which the members of S can be yielded.
Listings(S) ==
    { s \in [1..Cardinality(S) -> S] : \A x \in S : \E i \in DOMAIN s : s[i] = x }

RECURSIVE resolved_files(_, _)
resolved_files(f, listing) ==
    IF listing = <<>> THEN <<>>
    ELSE (IF is_file(f, Head(listing)) THEN <<resolve(f, Head(listing))>> ELSE <<>>)
            \o resolved_files(f, Tail(listing))

\* Fault variant of gather_m3u_files: the directory's files in listing order.
gather_unsorted(f, root, listing) ==
    IF is_file(f, root)
    THEN IF lower(suffix(path_name(root))) # DOT_M3U
         THEN Raised("ValueError")
         ELSE Returned(<<resolve(f, root)>>)
    ELSE IF ~is_dir(f, root)
    THEN Raised("NotADirectoryError")
    ELSE Returned(resolved_files(f, listing))

gather_m3u_files(f, root, listing) ==
    IF is_file(f, root)
    THEN IF lower(suffix(path_name(root))) # DOT_M3U
         THEN Raised("ValueError")
         ELSE Returned(<<resolve(f, root)>>)
    ELSE IF ~is_dir(f, root)
    THEN Raised("NotADirectoryError")
    ELSE Returned(sorted(resolved_files(f, listing)))

(***************************************************************************)
(* Settings                                                                *)
(***************************************************************************)
DEFAULT_BASE_URL ==
    <<"h", "t", "t", "p", ":", "/", "/", "1", "2", "7", ".", "0", ".", "0", ".", "1",
      ":", "3", "0", "0", "0">>

\* An environment variable: not set, or set to a value.
Unset == [set |-> FALSE, value |-> <<>>]
Env(v) == [set |-> TRUE, value |-> v]

\* os.getenv(name, default): the default when the variable is not set.
getenv(e, default) == IF e.set THEN e.value ELSE default

\* The class body of Settings, run at import.
load_settings(base, username, password) ==
    [ BASE_URL |-> rstrip(getenv(base, DEFAULT_BASE_URL), {"/"}),
      USERNAME |-> getenv(username, <<"a", "d", "m", "i", "n">>),
      PASSWORD |-> getenv(password, <<"a", "d", "m", "i", "n">>) ]

\* Settings.validate: the required keys whose value is empty.
missing(cfg) == { k \in {"BASE_URL", "USERNAME", "PASSWORD"} : cfg[k] = <<>> }

(***************************************************************************)
(* api_request and login                                                   *)
(***************************************************************************)
LOGIN_ENDPOINT ==
    <<"/", "a", "p", "i", "/", "v", "1", "/", "a", "u", "t", "h", "/",
      "l", "o", "g", "i", "n">>
SAVE_ENDPOINT ==
    <<"/", "a", "p", "i", "/", "v", "1", "/", "p", "l", "a", "y", "l", "i", "s", "t", "/",
      "s", "a", "v", "e">>

\* What session.request produces: a response, or no response within the timeout.
Timeout == [kind |-> "timeout", status |-> 0, json |-> "invalid", token |-> None]
Response(st, js, tok) == [kind |-> "response", status |-> st, json |-> js, token |-> tok]

\* Response.raise_for_status: HTTPError for a client or a server error status.
raise_for_status(status) ==
    IF 400 <= status /\ status < 600 THEN "HTTPError" ELSE "none"

\* Fault variant of join_url: the endpoint is used as given.
join_url_keep_slashes(base, ep) == base \o <<"/">> \o ep

join_url(base, ep) == base \o <<"/">> \o lstrip(ep, {"/"})

api_request(base, ep, rep) ==
    LET u == join_url(base, ep)
    IN  IF rep.kind = "timeout"
        THEN [url |-> u, raised |-> "Timeout"]
        ELSE [url |-> u, raised |-> raise_for_status(rep.status)]

\* A request as the server sees it, with what came back.
Request(u, ep, csrf, payload, rep) ==
    [method |-> "POST", url |-> u, endpoint |-> ep, csrf |-> csrf, json |-> payload,
     reply |-> rep]

\* A call without a json= argument.
NoPayload == <<>>

truthy(v) == v # None /\ v # ""

\* Fault variant of login: the token is never stored in the session.
login_without_header(base, hdr, rep) ==
    LET r == api_request(base, LOGIN_ENDPOINT, rep)
    IN  IF r.raised # "none" THEN [raised |-> r.raised, headers |-> hdr]
        ELSE IF rep.json = "invalid" THEN [raised |-> "JSONDecodeError", headers |-> hdr]
        ELSE IF rep.json # "object" THEN [raised |-> "AttributeError", headers |-> hdr]
        ELSE [raised |-> "none", headers |-> hdr]

\* login: the exception it raises ("none" when it returns) and the session's
\* X-CSRF-Token header afterwards.
login(base, hdr, rep) ==
    LET r == api_request(base, LOGIN_ENDPOINT, rep)
    IN  IF r.raised # "none" THEN [raised |-> r.raised, headers |-> hdr]
        ELSE IF rep.json = "invalid" THEN [raised |-> "JSONDecodeError", headers |-> hdr]
        ELSE IF rep.json # "object" THEN [raised |-> "AttributeError", headers |-> hdr]
        ELSE IF truthy(rep.token) THEN [raised |-> "none", headers |-> rep.token]
        ELSE [raised |-> "none", headers |-> hdr]

(***************************************************************************)
(* main, step by step                                                      *)
(***************************************************************************)
\* Fault variant of discover: an empty list goes on to the login.
discover_without_empty_check(f, root, listing) ==
    LET r == gather_m3u_files(f, root, listing)
    IN  IF r.raised \in {"FileNotFoundError", "ValueError", "NotADirectoryError"}
        THEN [m3u_files |-> <<>>, err |-> r.raised, pc |-> "done", exit_code |-> 1]
        ELSE [m3u_files |-> r.value, err |-> "none", pc |-> "login", exit_code |-> -1]

\* Lines 251-262: gather, the except clause and the empty check.
discover(f, root, listing) ==
    LET r == gather_m3u_files(f, root, listing)
    IN  IF r.raised \in {"FileNotFoundError", "ValueError", "NotADirectoryError"}
        THEN [m3u_files |-> <<>>, err |-> r.raised, pc |-> "done", exit_code |-> 1]
        ELSE IF r.value = <<>>
        THEN [m3u_files |-> <<>>, err |-> "none", pc |-> "done", exit_code |-> 1]
        ELSE [m3u_files |-> r.value, err |-> "none", pc |-> "login", exit_code |-> -1]

\* Fault variant of login_step: a failed login is logged and the run goes on.
login_step_continue(base, hdr, rep) ==
    LET l == login(base, hdr, rep)
    IN  [headers |-> l.headers, err |-> l.raised, pc |-> "upload", exit_code |-> -1]

\* Lines 265-273: the login call and its except clause.
login_step(base, hdr, rep) ==
    LET l == login(base, hdr, rep)
    IN  IF l.raised # "none"
        THEN [headers |-> l.headers, err |-> l.raised, pc |-> "done", exit_code |-> 1]
        ELSE [headers |-> l.headers, err |-> "none", pc |-> "upload", exit_code |-> -1]

\* Fault variant of upload_one: the first failure ends the run.
upload_one_abort(base, hdr, m3u_path, here, lines, rep) ==
    LET parsed == parse_m3u(here, lines)
        playlist_name == stem(path_name(m3u_path))
        payload == [title |-> playlist_name, songs |-> parsed.value]
        r == api_request(base, SAVE_ENDPOINT, rep)
    IN  IF parsed.raised # "none"
        THEN [ attempt |-> [path |-> m3u_path, present |-> FALSE, lines |-> <<>>,
                            songs |-> <<>>, raised |-> parsed.raised],
               requests |-> <<>>, pc |-> "done", exit_code |-> 1 ]
        ELSE [ attempt |-> [path |-> m3u_path, present |-> TRUE, lines |-> lines,
                            songs |-> parsed.value, raised |-> r.raised],
               requests |-> <<Request(r.url, SAVE_ENDPOINT, hdr, payload, rep)>>,
               pc |-> IF r.raised # "none" THEN "done" ELSE "upload",
               exit_code |-> IF r.raised # "none" THEN 1 ELSE -1 ]

\* Fault variant of upload_one: a playlist without songs is not submitted.
upload_one_skip_empty(base, hdr, m3u_path, here, lines, rep) ==
    LET parsed == parse_m3u(here, lines)
        playlist_name == stem(path_name(m3u_path))
        payload == [title |-> playlist_name, songs |-> parsed.value]
        r == api_request(base, SAVE_ENDPOINT, rep)
    IN  IF parsed.raised # "none"
        THEN [ attempt |-> [path |-> m3u_path, present |-> FALSE, lines |-> <<>>,
                            songs |-> <<>>, raised |-> parsed.raised],
               requests |-> <<>>, pc |-> "upload", exit_code |-> -1 ]
        ELSE IF parsed.value = <<>>
        THEN [ attempt |-> [path |-> m3u_path, present |-> TRUE, lines |-> lines,
                            songs |-> <<>>, raised |-> "none"],
               requests |-> <<>>, pc |-> "upload", exit_code |-> -1 ]
        ELSE [ attempt |-> [path |-> m3u_path, present |-> TRUE, lines |-> lines,
                            songs |-> parsed.value, raised |-> r.raised],
               requests |-> <<Request(r.url, SAVE_ENDPOINT, hdr, payload, rep)>>,
               pc |-> "upload", exit_code |-> -1 ]

\* Lines 276-292: one iteration of the upload loop for m3u_path, which is a
\* regular file or not (here), yields lines, and whose save request gets rep.
upload_one(base, hdr, m3u_path, here, lines, rep) ==
    LET parsed == parse_m3u(here, lines)
        playlist_name == stem(path_name(m3u_path))
        payload == [title |-> playlist_name, songs |-> parsed.value]
        r == api_request(base, SAVE_ENDPOINT, rep)
    IN  IF parsed.raised # "none"
        THEN [ attempt |-> [path |-> m3u_path, present |-> FALSE, lines |-> <<>>,
                            songs |-> <<>>, raised |-> parsed.raised],
               requests |-> <<>>, pc |-> "upload", exit_code |-> -1 ]
        ELSE [ attempt |-> [path |-> m3u_path, present |-> TRUE, lines |-> lines,
                            songs |-> parsed.value, raised |-> r.raised],
               requests |-> <<Request(r.url, SAVE_ENDPOINT, hdr, payload, rep)>>,
               pc |-> "upload", exit_code |-> -1 ]

parseVars == <<present, raw_lines, songs>>
apiVars == <<env_base, endpoint, reply, url>>
fsVars == <<fs, case_sensitive>>

\* Lines 241-245.
Validate ==
    /\ pc = "validate"
    /\ IF missing(Settings) # {}
       THEN pc' = "done" /\ exit_code' = 1
       ELSE pc' = "cli" /\ exit_code' = exit_code
    /\ UNCHANGED <<Settings, args_path, target, m3u_files, err, idx, headers, http,
                   attempts, parseVars, apiVars, fsVars>>

\* Lines 248-249.
ParseCli ==
    /\ pc = "cli"
    /\ target' = resolve(fs, args_path)
    /\ pc' = "gather"
    /\ UNCHANGED <<exit_code, Settings, args_path, m3u_files, err, idx, headers, http,
                   attempts, parseVars, apiVars, fsVars>>

\* Lines 251-262.
Discover ==
    /\ pc = "gather"
    /\ \E listing \in Listings(glob(fs, target, case_sensitive)) :
        LET d == discover(fs, target, listing)
        IN  /\ m3u_files' = d.m3u_files
            /\ err' = d.err
            /\ pc' = d.pc
            /\ exit_code' = d.exit_code
    /\ UNCHANGED <<Settings, args_path, target, idx, headers, http, attempts,
                   parseVars, apiVars, fsVars>>

\* What the server may answer to the login request.
LoginReplies ==
    { Timeout,
      Response(401, "invalid", None),
      Response(500, "object", None),
      Response(200, "object", "tok1"),
      Response(200, "object", "tok2"),
      Response(200, "object", None),
      Response(200, "object", ""),
      Response(200, "invalid", None),
      Response(204, "invalid", None),
      Response(200, "array", None),
      Response(304, "object", "tok1") }

\* Lines 265-273.
Login ==
    /\ pc = "login"
    /\ \E rep \in LoginReplies :
        LET l == login_step(Settings.BASE_URL, headers, rep)
        IN  /\ http' = Append(http,
                        Request(join_url(Settings.BASE_URL, LOGIN_ENDPOINT),
                                LOGIN_ENDPOINT, headers,
                                [username |-> Settings.USERNAME,
                                 password |-> Settings.PASSWORD], rep))
            /\ headers' = l.headers
            /\ err' = l.err
            /\ pc' = l.pc
            /\ exit_code' = l.exit_code
            /\ reply' = rep
    /\ idx' = 1
    /\ UNCHANGED <<Settings, args_path, target, m3u_files, attempts, parseVars,
                   env_base, endpoint, url, fsVars>>

\* What a playlist file may hold when the loop reads it.
HASH == "#"
SONG_A == <<"a", ".", "m", "p", "3">>
MainContents ==
    { <<>>,
      << <<HASH, "E", "X", "T", "\n">>, <<" ", "\n">> >>,
      << <<HASH, "E", "X", "T", "\n">>, <<" ">> \o SONG_A \o <<"\n">>, <<"b", "\n">> >> }

\* What the server may answer to a save request.
SaveReplies ==
    { Timeout,
      Response(200, "object", None),
      Response(304, "invalid", None),
      Response(500, "invalid", None) }

\* Lines 276-292, one iteration.
UploadOne ==
    /\ pc = "upload"
    /\ idx <= Len(m3u_files)
    /\ \E here \in BOOLEAN, lines \in MainContents, rep \in SaveReplies :
        LET u == upload_one(Settings.BASE_URL, headers, m3u_files[idx], here, lines, rep)
        IN  /\ attempts' = Append(attempts, u.attempt)
            /\ http' = http \o u.requests
            /\ pc' = u.pc
            /\ exit_code' = u.exit_code
            /\ present' = u.attempt.present
            /\ raw_lines' = u.attempt.lines
            /\ songs' = u.attempt.songs
            /\ err' = u.attempt.raised
    /\ idx' = idx + 1
    /\ UNCHANGED <<Settings, args_path, target, m3u_files, headers, apiVars, fsVars>>

\* Lines 294-295.
Finish ==
    /\ pc = "upload"
    /\ idx > Len(m3u_files)
    /\ pc' = "done"
    /\ exit_code' = 0
    /\ UNCHANGED <<Settings, args_path, target, m3u_files, err, idx, headers, http,
                   attempts, parseVars, apiVars, fsVars>>

\* The environments main is started in: complete, or with one required value empty.
HOST == <<"h", "t", "t", "p", ":", "/", "/", "h", "o", "s", "t", ":", "3", "0", "0", "0">>
USER == <<"u">>
MainEnvironments ==
    { <<Env(HOST \o <<"/">>), Env(USER), Unset>>,
      <<Env(<<"/">>), Env(USER), Unset>>,
      <<Unset, Env(<<>>), Unset>>,
      <<Unset, Unset, Env(<<>>)>> }

\* The filesystems main is started on.
MainFileSystems ==
    { f \in FileSystems :
        f[PathE] = Absent /\ f[PathX] = Absent /\ f[PathT] = RegularFile }

Init ==
    /\ pc = "validate"
    /\ exit_code = -1
    /\ \E e \in MainEnvironments :
        /\ env_base = e[1]
        /\ Settings = load_settings(e[1], e[2], e[3])
    /\ args_path \in Targets
    /\ target = <<>>
    /\ fs \in MainFileSystems
    /\ case_sensitive \in BOOLEAN
    /\ m3u_files = <<>>
    /\ err = "none"
    /\ idx = 0
    /\ headers = None
    /\ http = <<>>
    /\ attempts = <<>>
    /\ present = FALSE
    /\ raw_lines = <<>>
    /\ songs = <<>>
    /\ endpoint = <<>>
    /\ reply = Timeout
    /\ url = <<>>

Next ==
    \/ Validate
    \/ ParseCli
    \/ Discover
    \/ Login
    \/ UploadOne
    \/ Finish

Spec == Init /\ [][Next]_vars

(***************************************************************************)
(* parse_m3u called on its own                                             *)
(***************************************************************************)
MaxLines == 3

\* The lines a playlist is made of, as the file object yields them.
RawLines ==
    { <<"\n">>,
      <<" ", "\t", "\n">>,
      <<HASH, "\n">>,
      <<HASH, "a", "\n">>,
      <<" ", HASH, "a", "\n">>,
      <<"\t", HASH, " ", "\n">>,
      <<"a", "\n">>,
      <<"b">>,
      <<" ", "a", " ", "\n">>,
      <<"a", " ", "b", "\r", "\n">>,
      <<"a", HASH, "\n">>,
      <<"\t", "b", HASH, " ", "a", "\t", "\n">> }

Playlists == UNION { [1..n -> RawLines] : n \in 0..MaxLines }

InitParse ==
    /\ pc = "parse_call"
    /\ present \in BOOLEAN
    /\ raw_lines \in Playlists
    /\ songs = <<>>
    /\ err = "none"
    /\ exit_code = -1
    /\ env_base = Unset
    /\ Settings = load_settings(Unset, Unset, Unset)
    /\ args_path = <<>>
    /\ target = <<>>
    /\ fs \in NoFiles
    /\ case_sensitive = TRUE
    /\ m3u_files = <<>>
    /\ idx = 0
    /\ headers = None
    /\ http = <<>>
    /\ attempts = <<>>
    /\ endpoint = <<>>
    /\ reply = Timeout
    /\ url = <<>>

\* songs = parse_m3u(file_path)
ParseCall ==
    /\ pc = "parse_call"
    /\ LET r == parse_m3u(present, raw_lines)
       IN  songs' = r.value /\ err' = r.raised
    /\ pc' = "parse_ret"
    /\ UNCHANGED <<exit_code, Settings, args_path, target, m3u_files, idx, headers,
                   http, attempts, present, raw_lines, apiVars, fsVars>>

SpecParse == InitParse /\ [][ParseCall]_vars

(***************************************************************************)
(* gather_m3u_files called on its own                                      *)
(***************************************************************************)
InitGather ==
    /\ pc = "gather_call"
    /\ fs \in FileSystems
    /\ target \in Targets
    /\ case_sensitive \in BOOLEAN
    /\ m3u_files = <<>>
    /\ err = "none"
    /\ exit_code = -1
    /\ env_base = Unset
    /\ Settings = load_settings(Unset, Unset, Unset)
    /\ args_path = <<>>
    /\ idx = 0
    /\ headers = None
    /\ http = <<>>
    /\ attempts = <<>>
    /\ present = FALSE
    /\ raw_lines = <<>>
    /\ songs = <<>>
    /\ endpoint = <<>>
    /\ reply = Timeout
    /\ url = <<>>

\* m3u_files = gather_m3u_files(root)
GatherCall ==
    /\ pc = "gather_call"
    /\ \E listing \in Listings(glob(fs, target, case_sensitive)) :
        LET r == gather_m3u_files(fs, target, listing)
        IN  m3u_files' = r.value /\ err' = r.raised
    /\ pc' = "gather_ret"
    /\ UNCHANGED <<exit_code, Settings, args_path, target, idx, headers, http,
                   attempts, parseVars, apiVars, fsVars>>

SpecGather == InitGather /\ [][GatherCall]_vars

(***************************************************************************)
(* api_request called on its own                                           *)
(***************************************************************************)
MaxSlashes == 2

Slashes(n) == [i \in 1..n |-> "/"]

\* MS_BASE_URL: not set, or a host or a host and a path, followed by slashes.
BaseUrls ==
    {Unset} \cup
    { Env(b \o Slashes(n)) : b \in {<<>>, HOST, HOST \o <<"/", "m">>}, n \in 0..MaxSlashes }

\* The endpoints a caller passes: slashes, then a path or nothing.
Endpoints ==
    { Slashes(n) \o e :
        n \in 0..MaxSlashes,
        e \in {<<>>, Tail(LOGIN_ENDPOINT), Tail(SAVE_ENDPOINT), <<"a", "/">>} }

Statuses == {100, 101, 199, 200, 201, 204, 299, 300, 304, 399, 400, 401, 404, 499,
             500, 503, 599}

ApiReplies == {Timeout} \cup { Response(st, "invalid", None) : st \in Statuses }

InitApi ==
    /\ pc = "api_call"
    /\ env_base \in BaseUrls
    /\ Settings = load_settings(env_base, Unset, Unset)
    /\ endpoint \in Endpoints
    /\ reply = Timeout
    /\ url = <<>>
    /\ err = "none"
    /\ exit_code = -1
    /\ args_path = <<>>
    /\ target = <<>>
    /\ fs \in NoFiles
    /\ case_sensitive = TRUE
    /\ m3u_files = <<>>
    /\ idx = 0
    /\ headers = None
    /\ http = <<>>
    /\ attempts = <<>>
    /\ present = FALSE
    /\ raw_lines = <<>>
    /\ songs = <<>>

\* resp = api_request(session, "POST", endpoint)
ApiCall ==
    /\ pc = "api_call"
    /\ \E rep \in ApiReplies :
        LET r == api_request(Settings.BASE_URL, endpoint, rep)
        IN  /\ url' = r.url
            /\ err' = r.raised
            /\ reply' = rep
            /\ http' = Append(http, Request(r.url, endpoint, headers, NoPayload, rep))
    /\ pc' = "api_ret"
    /\ UNCHANGED <<exit_code, Settings, args_path, target, m3u_files, idx, headers,
                   attempts, parseVars, env_base, endpoint, fsVars>>

SpecApi == InitApi /\ [][ApiCall]_vars

(***************************************************************************)
(* Properties                                                              *)
(***************************************************************************)
\* A line without its surrounding whitespace: from its first to its last
\* character that is not whitespace.
Trimmed(l) ==
    LET ink == { i \in 1..Len(l) : l[i] \notin Whitespace }
    IN  IF ink = {} THEN <<>>
        ELSE SubSeq(l, CHOOSE i \in ink : \A j \in ink : i <= j,
                       CHOOSE i \in ink : \A j \in ink : j <= i)

\* A line that is blank or a comment.
Ignored(l) == Trimmed(l) = <<>> \/ Trimmed(l)[1] = "#"

\* The positions of the lines that are entries.
Kept(lines) == { i \in 1..Len(lines) : ~Ignored(lines[i]) }

\* A name that ends in .m3u, whatever the case of its letters.
HasM3uExtension(name) ==
    /\ Len(name) > Len(DOT_M3U)
    /\ \A i \in 1..Len(DOT_M3U) :
        LET c == name[Len(name) - Len(DOT_M3U) + i]
        IN  c = DOT_M3U[i] \/ \E k \in 1..Len(UpperCase) :
                                    c = UpperCase[k] /\ LowerCase[k] = DOT_M3U[i]

\* title is name without its extension.
IsNameWithoutExtension(title, name) ==
    /\ title # <<>>
    /\ Len(title) + 1 < Len(name)
    /\ SubSeq(name, 1, Len(title)) = title
    /\ name[Len(title) + 1] = "."
    /\ \A j \in (Len(title) + 2)..Len(name) : name[j] # "."

IsImmediateChild(p, dir) ==
    Len(p) = Len(dir) + 1 /\ \A i \in 1..Len(dir) : p[i] = dir[i]

Ascending(paths) ==
    \A i, j \in 1..Len(paths) : i < j => ~path_lt(paths[j], paths[i])

Is2xx(rep) == rep.kind = "response" /\ rep.status \in 200..299

\* The login succeeded: the run's first request is the login, and login
\* returned on its reply.
LoggedIn ==
    /\ http # <<>>
    /\ login(Settings.BASE_URL, None, http[1].reply).raised = "none"

LoginFailed ==
    /\ http # <<>>
    /\ login(Settings.BASE_URL, None, http[1].reply).raised # "none"

SaveRequests == { k \in 1..Len(http) : http[k].endpoint = SAVE_ENDPOINT }
LoginRequests == { k \in 1..Len(http) : http[k].endpoint = LOGIN_ENDPOINT }

AttemptedPaths == [i \in 1..Len(attempts) |-> attempts[i].path]

\* C1: once the login has succeeded, the files attempted so far are the
\* discovered files up to the loop's position, each once and in the order
\* gather_m3u_files returned them, whatever failed; and when main returns,
\* every discovered file has been attempted and the exit code is 0.
PerFileIsolation ==
    LoggedIn =>
        /\ pc = "upload" => AttemptedPaths = SubSeq(m3u_files, 1, idx - 1)
        /\ pc = "done" => AttemptedPaths = m3u_files /\ exit_code = 0

\* Three files, failing in the three ways, and main returned.
PerFileIsolationWitness ==
    /\ pc = "done"
    /\ LoggedIn
    /\ Len(attempts) = 3
    /\ attempts[1].raised = "FileNotFoundError"
    /\ attempts[2].raised = "HTTPError"
    /\ attempts[3].raised = "Timeout"
    /\ exit_code = 0

\* The input path names a regular file without the .m3u extension, or
\* nothing, or a directory whose scan yields no file.
DiscoveryFails ==
    LET t == resolve(fs, args_path)
        kind == node(fs, t).kind
    IN  \/ kind = "file" /\ ~HasM3uExtension(path_name(t))
        \/ kind \notin {"file", "dir"}
        \/ /\ kind = "dir"
           /\ \A p \in glob(fs, t, case_sensitive) : ~is_file(fs, p)

\* C2: when discovery fails, no HTTP request is ever issued, the run never
\* reaches the login, and main returns 1.
DiscoveryFailureIsFatal ==
    DiscoveryFails =>
        /\ http = <<>>
        /\ pc \notin {"login", "upload"}
        /\ pc = "done" => exit_code = 1

\* A valid configuration, a directory whose only playlist has an extension the
\* scan does not match, and main returned.
DiscoveryFailureWitness ==
    /\ pc = "done"
    /\ missing(Settings) = {}
    /\ DiscoveryFails
    /\ target = DirD
    /\ fs[PathList] = RegularFile
    /\ err = "none"
    /\ exit_code = 1

\* C3: a run that reaches the network issues exactly one login request, first;
\* when the login fails there is no other request, no file is parsed and main
\* has returned 1.
AuthenticateOnce ==
    /\ http # <<>> => LoginRequests = {1}
    /\ LoginFailed =>
        /\ Len(http) = 1
        /\ attempts = <<>>
        /\ pc = "done"
        /\ exit_code = 1

\* The login timed out, with files waiting.
AuthenticateOnceWitness ==
    /\ pc = "done"
    /\ Len(m3u_files) >= 2
    /\ Len(http) = 1
    /\ http[1].reply = Timeout
    /\ exit_code = 1

\* C4: on an existing file parse_m3u returns the trimmed entries of the file,
\* all of them, in file order, and nothing else.
ParseKeepsEntriesInOrder ==
    (pc = "parse_ret" /\ present) =>
        /\ err = "none"
        /\ Len(songs) = Cardinality(Kept(raw_lines))
        /\ \A i \in Kept(raw_lines) :
            LET j == Cardinality({ k \in Kept(raw_lines) : k <= i })
            IN  j <= Len(songs) /\ songs[j] = Trimmed(raw_lines[i])
        /\ \A j \in 1..Len(songs) : songs[j] # <<>> /\ songs[j][1] # "#"

\* A comment between two entries that have whitespace on both sides.
ParseWitness ==
    /\ pc = "parse_ret"
    /\ present
    /\ raw_lines = << <<"\t", "b", HASH, " ", "a", "\t", "\n">>,
                      <<" ", HASH, "a", "\n">>,
                      <<" ", "a", " ", "\n">> >>
    /\ songs = << <<"b", HASH, " ", "a">>, <<"a">> >>

Non2xxRaises ==
    (pc = "api_ret" /\ reply.kind = "response") =>
        (err # "none" <=> reply.status \notin 200..299)

\* The save request of the attempt at position i, when the file was read: the
\* login is the first request, and every file read is followed by one save.
SaveOf(i) == 1 + Cardinality({ k \in 1..i : attempts[k].present })

\* C7: a file that was read and holds no entry parses to the empty list and
\* has its own save request, with the file's name without extension as title
\* and no songs; when the server accepts it the client reports no failure.
EmptyPlaylistIsUploaded ==
    /\ Cardinality(SaveRequests) = Cardinality({ k \in 1..Len(attempts) : attempts[k].present })
    /\ \A i \in 1..Len(attempts) :
        (attempts[i].present /\ \A n \in 1..Len(attempts[i].lines) : Ignored(attempts[i].lines[n])) =>
            /\ attempts[i].songs = <<>>
            /\ SaveOf(i) \in SaveRequests
            /\ IsNameWithoutExtension(http[SaveOf(i)].json.title, path_name(attempts[i].path))
            /\ http[SaveOf(i)].json.songs = <<>>
            /\ Is2xx(http[SaveOf(i)].reply) => attempts[i].raised = "none"

\* A playlist of a comment and a blank line, submitted and accepted.
EmptyPlaylistWitness ==
    \E i \in 1..Len(attempts) :
        /\ attempts[i].present
        /\ Len(attempts[i].lines) = 2
        /\ attempts[i].songs = <<>>
        /\ SaveOf(i) \in SaveRequests
        /\ http[SaveOf(i)].json.songs = <<>>
        /\ attempts[i].raised = "none"

\* s without the slashes it ends with, and without those it starts with.
WithoutTrailingSlashes(s) ==
    CHOOSE b \in { SubSeq(s, 1, n) : n \in 0..Len(s) } :
        /\ b = <<>> \/ b[Len(b)] # "/"
        /\ \A i \in (Len(b) + 1)..Len(s) : s[i] = "/"

WithoutLeadingSlashes(s) ==
    CHOOSE e \in { SubSeq(s, n, Len(s)) : n \in 1..(Len(s) + 1) } :
        /\ e = <<>> \/ e[1] # "/"
        /\ \A i \in 1..(Len(s) - Len(e)) : s[i] = "/"

\* C8: the URL requested is the configured base without trailing slashes, one
\* slash, and the endpoint without leading slashes; no slash precedes or
\* follows the joining one; http://host:3000/ and /api/v1/auth/login give
\* http://host:3000/api/v1/auth/login.
UrlJoin ==
    pc = "api_ret" =>
        LET base == WithoutTrailingSlashes(getenv(env_base, DEFAULT_BASE_URL))
            ep == WithoutLeadingSlashes(endpoint)
            k == Len(base) + 1
        IN  /\ Len(url) = Len(base) + 1 + Len(ep)
            /\ SubSeq(url, 1, k - 1) = base
            /\ url[k] = "/"
            /\ SubSeq(url, k + 1, Len(url)) = ep
            /\ k > 1 => url[k - 1] # "/"
            /\ k < Len(url) => url[k + 1] # "/"
            /\ (env_base = Env(HOST \o <<"/">>) /\ endpoint = LOGIN_ENDPOINT) =>
                    url = HOST \o LOGIN_ENDPOINT

\* Slashes on both sides of the join.
UrlJoinWitness ==
    /\ pc = "api_ret"
    /\ env_base = Env(HOST \o <<"/", "/">>)
    /\ endpoint = <<"/", "/">> \o Tail(LOGIN_ENDPOINT)
    /\ url = HOST \o LOGIN_ENDPOINT

\* The login's reply is a 2xx response carrying a token.
LoginGaveToken ==
    /\ http # <<>>
    /\ Is2xx(http[1].reply)
    /\ http[1].reply.json = "object"
    /\ truthy(http[1].reply.token)

\* C9 as stated: with a token in the 2xx login reply every save request
\* carries it and the session keeps it; with no token in the 2xx login reply
\* the login still succeeds, the run goes on to the upload loop and the save
\* requests carry no X-CSRF-Token.
TokenAttachment ==
    /\ LoginGaveToken =>
        /\ headers = http[1].reply.token
        /\ \A k \in SaveRequests : http[k].csrf = http[1].reply.token
    /\ (http # <<>> /\ Is2xx(http[1].reply) /\ ~LoginGaveToken) =>
        /\ pc \in {"upload", "done"}
        /\ pc = "done" => exit_code = 0
        /\ headers = None
        /\ \A k \in SaveRequests : http[k].csrf = None

\* C9, amended: as stated, where the reply without a token is a 2xx response
\* whose body is a JSON object with no token or an empty one.
TokenAttachmentOfJsonObject ==
    /\ LoginGaveToken =>
        /\ headers = http[1].reply.token
        /\ \A k \in SaveRequests : http[k].csrf = http[1].reply.token
    /\ (http # <<>> /\ Is2xx(http[1].reply) /\ http[1].reply.json = "object"
            /\ ~LoginGaveToken) =>
        /\ pc \in {"upload", "done"}
        /\ pc = "done" => exit_code = 0
        /\ headers = None
        /\ \A k \in SaveRequests : http[k].csrf = None

\* The token tok2, kept over a failed and a successful upload.
TokenWitness ==
    /\ pc = "done"
    /\ LoginGaveToken
    /\ http[1].reply.token = "tok2"
    /\ Len(http) = 3
    /\ http[2].reply.status = 500
    /\ http[3].reply.status = 200
    /\ http[3].csrf = "tok2"

\* C10: for a directory, every child that is a regular file and that
\* gather_m3u_files accepts as a single-file input is in the list returned.
ScanMatchesSingleFileCheck ==
    (pc = "gather_ret" /\ err = "none" /\ node(fs, target).kind = "dir") =>
        \A p \in children(fs, target) :
            (fs[p].kind = "file" /\ gather_m3u_files(fs, p, <<>>).raised = "none") =>
                \E i \in 1..Len(m3u_files) : m3u_files[i] = p

====
